---- MODULE Spec2Model ----
(***************************************************************************)
(* Model of src/transformers/swc/swc-transformer.ts: the jest transformer  *)
(* built by createTransformer (process, processAsync, getCacheKey) and the *)
(* helpers buildSwcTransformOpts, getOptionsFromSwrc,                      *)
(* insertInstrumentationOptions and set.                                   *)
(*                                                                         *)
(* JavaScript objects are modelled with their identity where the code      *)
(* shares them: the object spread of buildSwcTransformOpts copies only the *)
(* top level, so the nested jsc object of the caller's options is the very *)
(* object the instance keeps.  jsc objects therefore live in a heap and    *)
(* are referred to by index; top-level option objects are plain records.   *)
(* Every object carries `keys`, its own keys in insertion order: that is   *)
(* the order JSON.stringify writes them in.  The value of a key that is    *)
(* absent and of a key that holds undefined is "unset"; `keys` tells the   *)
(* two apart.  Inputs hold no null but for the jsc key.                    *)
(***************************************************************************)
EXTENDS Naturals, Sequences, FiniteSets

VARIABLES
    heap,        \* the jsc objects, by identity (index)
    callerOpts,  \* the options object the caller holds (top level)
    instances,   \* the closures createTransformer has returned
    pending,     \* promises of processAsync the compiler has not settled
    last         \* the most recent call: its arguments and what it produced

vars == <<heap, callerOpts, instances, pending, last>>

(***************************************************************************)
(* Bounds of the model.                                                    *)
(***************************************************************************)
MaxInstances == 2
MaxPending == 1

(***************************************************************************)
(* Values.                                                                 *)
(***************************************************************************)
Unset == "unset"

CoveragePluginId == "swc-plugin-coverage-instrument"
DefaultTarget == "es2016"
InlineSourceMaps == "inline"
SwcVersion == "swcVersion"
Version == "0.2.26"

\* customCoverageInstrumentation without its `enabled` field ({} when nothing
\* else was given).
EmptyMapping == [coverageVariable |-> Unset]

\* The default of `?? {}` on line 33: no customCoverageInstrumentation at all.
NoInstrumentation == [enabled |-> Unset, coverageVariable |-> Unset]

OtherPlugin == [id |-> "other-plugin", opts |-> EmptyMapping]

\* A jsc object that holds nothing yet: the {} that set() creates.
EmptyJsc ==
    [target |-> Unset, baseUrl |-> Unset, hiddenJest |-> Unset,
     experimental |-> FALSE, pluginsIsArray |-> FALSE, plugins |-> <<>>,
     keys |-> <<>>]

\* Assigning obj[k]: a new key goes last, an existing key keeps its place.
AddKey(keys, k) ==
    IF \E n \in 1..Len(keys) : keys[n] = k THEN keys ELSE Append(keys, k)

\* The keys of `order` that are present, in that order: the keys of an
\* object literal written in the order `order`.
KeysIn(order, present) ==
    SelectSeq(order, LAMBDA k : k \in present)

Truthy(v) == v \notin {Unset, "false", ""}

(***************************************************************************)
(* path.resolve against the working directory: an absolute path is kept,   *)
(* a relative one is put under the working directory.                      *)
(***************************************************************************)
PathResolve(p) ==
    CASE p = "src" -> "/cwd/src"
      [] OTHER -> p

(***************************************************************************)
(* Inputs.                                                                 *)
(***************************************************************************)
Sources == {"export const x = 1"}
Filenames == {"a.ts"}
\* jestOptions.supportsStaticESM as the host passes it.
EsmFlags == {"true", "false", Unset}

EnvValues == BOOLEAN
SourceMapValues == {Unset, "true", "false", InlineSourceMaps}
\* The module object: none, {} and { type: 'amd' }.  It has one key, so
\* its key order tells nothing, and a type holding undefined is written
\* and spread as an absent one.
ModuleValues == {{}, {[type |-> Unset]}, {[type |-> "amd"]}}
TargetValues == {Unset, "es2020"}
BaseUrlValues == {Unset, "src", "/abs"}
InstrumentationValues ==
    {NoInstrumentation,
     [enabled |-> "true", coverageVariable |-> Unset],
     [enabled |-> "true", coverageVariable |-> "__cov"],
     [enabled |-> "false", coverageVariable |-> Unset]}

\* The keys of a jsc object that hold a value.
JscSetKeys(target, baseUrl, experimental) ==
    (IF target = Unset THEN {} ELSE {"target"})
    \cup (IF baseUrl = Unset THEN {} ELSE {"baseUrl"})
    \cup (IF experimental THEN {"experimental"} ELSE {})

\* The jsc objects a caller or a .swcrc may hold.  None of them carries the
\* coverage plugin: the plugin is the transformer's own.  A key of `undef`
\* that holds no value is written in the literal as `key: undefined`: the
\* object has the key, and a later assignment takes its place.
JscKeyOrders ==
    {<<"target", "baseUrl", "experimental">>,
     <<"experimental", "baseUrl", "target">>}
JscValues ==
    { [target |-> t, baseUrl |-> b, hiddenJest |-> Unset,
       experimental |-> e[1], pluginsIsArray |-> e[2], plugins |-> e[3],
       keys |-> KeysIn(order, JscSetKeys(t, b, e[1]) \cup undef)] :
        t \in TargetValues, b \in BaseUrlValues,
        e \in {<<FALSE, FALSE, <<>>>>, <<TRUE, TRUE, <<>>>>,
               <<TRUE, TRUE, <<OtherPlugin>>>>},
        order \in JscKeyOrders,
        undef \in SUBSET {"target", "baseUrl", "experimental"} }

\* An options value, nested objects written out: jsc is {} when the caller
\* gave no jsc object (the key absent, or holding undefined or null) and
\* {the jsc object} otherwise; module likewise.
\* The keys of the object literal in the order they were written (the
\* experimental key, which the rest spread of line 99 drops, left aside).
\* The rest spread keeps a key that holds undefined.
TopKeyOrders ==
    {<<"env", "sourceMaps", "jsc", "module">>,
     <<"module", "jsc", "sourceMaps", "env">>}
TopSetKeys(env, sourceMaps, jsc, module) ==
    (IF env THEN {"env"} ELSE {})
    \cup (IF sourceMaps = Unset THEN {} ELSE {"sourceMaps"})
    \cup (IF jsc = {} THEN {} ELSE {"jsc"})
    \cup (IF module = {} THEN {} ELSE {"module"})
TopKeys(order, env, sourceMaps, jsc, module, undef) ==
    KeysIn(order, TopSetKeys(env, sourceMaps, jsc, module) \cup undef)
OptionValues ==
    { [env |-> e, sourceMaps |-> sm, jsc |-> j, module |-> m, cci |-> c,
       keys |-> TopKeys(order, e, sm, j, m, undef)] :
        e \in EnvValues, sm \in SourceMapValues,
        j \in {{}} \cup {{x} : x \in JscValues},
        m \in ModuleValues, c \in InstrumentationValues,
        order \in TopKeyOrders,
        undef \in SUBSET {"env", "sourceMaps", "jsc", "module"} }

\* What a JSON text can say: no key of the value holds undefined.  A jsc
\* key without a jsc object is then "jsc": null, which parses without error
\* and which set() replaces as it does undefined (line 156).
IsJson(o) ==
    /\ \A n \in 1..Len(o.keys) :
          o.keys[n] \in TopSetKeys(o.env, o.sourceMaps, o.jsc, o.module)
                           \cup {"jsc"}
    /\ \A j \in o.jsc :
          Len(j.keys)
            = Cardinality(JscSetKeys(j.target, j.baseUrl, j.experimental))

\* What the working directory may hold as .swcrc.
NoSwcrc == [exists |-> FALSE, wellFormed |-> TRUE, content |-> <<>>]
MalformedSwcrc == [exists |-> TRUE, wellFormed |-> FALSE, content |-> <<>>]
SwcrcFiles ==
    {NoSwcrc, MalformedSwcrc}
    \cup
    {[exists |-> TRUE, wellFormed |-> TRUE, content |-> <<v>>] :
        v \in {o \in OptionValues :
                  /\ IsJson(o)
                  /\ o.cci = NoInstrumentation
                  /\ o.module = {}
                  /\ \A j \in o.jsc : j.baseUrl = Unset /\ ~j.experimental}}

\* The inputs of the transformer's life after setup: option objects that
\* differ in what the transform calls read (the instrumentation block, the
\* plugin list, the module type, the shared jsc object).  Options without
\* an instrumentation block come from .swcrc.  The last one is written
\* { sourceMaps: undefined, module: .., jsc: .., experimental: .. }.
PlainJsc ==
    [target |-> Unset, baseUrl |-> "src", hiddenJest |-> Unset,
     experimental |-> TRUE, pluginsIsArray |-> TRUE,
     plugins |-> <<OtherPlugin>>, keys |-> <<"baseUrl", "experimental">>]
SetupValues ==
    {[env |-> FALSE, sourceMaps |-> Unset, jsc |-> {}, module |-> {},
      cci |-> [enabled |-> "true", coverageVariable |-> Unset],
      keys |-> <<>>],
     [env |-> FALSE, sourceMaps |-> Unset, jsc |-> {PlainJsc},
      module |-> {[type |-> "amd"]},
      cci |-> [enabled |-> "true", coverageVariable |-> "__cov"],
      keys |-> <<"jsc", "module">>],
     [env |-> FALSE, sourceMaps |-> Unset, jsc |-> {PlainJsc},
      module |-> {[type |-> "amd"]},
      cci |-> [enabled |-> "false", coverageVariable |-> Unset],
      keys |-> <<"sourceMaps", "module", "jsc">>]}
SetupFiles ==
    {NoSwcrc, MalformedSwcrc,
     [exists |-> TRUE, wellFormed |-> TRUE,
      content |-> <<[env |-> FALSE, sourceMaps |-> Unset,
                     jsc |-> {[EmptyJsc EXCEPT !.target = "es2020",
                                               !.keys = <<"target">>]},
                     module |-> {}, cci |-> NoInstrumentation,
                     keys |-> <<"jsc">>]>>]}

(***************************************************************************)
(* Object graphs.  A state of the helpers below is a top-level options     *)
(* record together with the heap its jsc reference points into.            *)
(***************************************************************************)
NoRef == 0

\* The options at `o` with the nested jsc object written out.
DeepOptions(o, h) ==
    [env |-> o.env, sourceMaps |-> o.sourceMaps,
     jsc |-> IF o.jsc = NoRef THEN {} ELSE {h[o.jsc]},
     module |-> o.module, cci |-> o.cci, keys |-> o.keys]

\* A fresh object graph holding the value v.
Materialize(v, h) ==
    IF v.jsc = {}
    THEN [opts |-> [env |-> v.env, sourceMaps |-> v.sourceMaps, jsc |-> NoRef,
                    module |-> v.module, cci |-> v.cci,
                    keys |-> v.keys],
          heap |-> h]
    ELSE [opts |-> [env |-> v.env, sourceMaps |-> v.sourceMaps,
                    jsc |-> Len(h) + 1,
                    module |-> v.module, cci |-> v.cci,
                    keys |-> v.keys],
          heap |-> Append(h, CHOOSE j \in v.jsc : TRUE)]

(***************************************************************************)
(* set(obj, path, value), lines 150-161: walks the parents of the path,    *)
(* creating {} where a parent is null or undefined, and assigns the key.   *)
(* The parents below jsc (transform, hidden) belong to the jsc object and  *)
(* are folded into its hiddenJest field.                                   *)
(***************************************************************************)
WithJsc(st) ==
    IF st.opts.jsc = NoRef
    THEN [opts |-> [st.opts EXCEPT !.jsc = Len(st.heap) + 1,
                                   !.keys = AddKey(@, "jsc")],
          heap |-> Append(st.heap, EmptyJsc)]
    ELSE st

Set(st, path, value) ==
    LET s == WithJsc(st) IN
    CASE path = "sourceMaps" ->
            [st EXCEPT !.opts.sourceMaps = value,
                       !.opts.keys = AddKey(@, "sourceMaps")]
      [] path = "jsc.target" ->
            [s EXCEPT !.heap[s.opts.jsc].target = value,
                      !.heap[s.opts.jsc].keys = AddKey(@, "target")]
      [] path = "jsc.transform.hidden.jest" ->
            [s EXCEPT !.heap[s.opts.jsc].hiddenJest = value,
                      !.heap[s.opts.jsc].keys = AddKey(@, "transform")]
      [] path = "jsc.baseUrl" ->
            [s EXCEPT !.heap[s.opts.jsc].baseUrl = value,
                      !.heap[s.opts.jsc].keys = AddKey(@, "baseUrl")]

\* computedSwcOptions.jsc?.<field>
JscField(st, field) ==
    IF st.opts.jsc = NoRef THEN Unset ELSE st.heap[st.opts.jsc][field]

(***************************************************************************)
(* getOptionsFromSwrc, lines 81-95.                                        *)
(***************************************************************************)
GetOptionsFromSwrc(file, h) ==
    IF ~file.exists
    THEN [ok |-> TRUE,
          st |-> [opts |-> [env |-> FALSE, sourceMaps |-> Unset, jsc |-> NoRef,
                            module |-> {}, cci |-> NoInstrumentation,
                            keys |-> <<>>],
                  heap |-> h]]
    ELSE IF ~file.wellFormed
    THEN [ok |-> FALSE, st |-> [opts |-> <<>>, heap |-> h]]
    ELSE [ok |-> TRUE, st |-> Materialize(file.content[1], h)]

(***************************************************************************)
(* buildSwcTransformOpts, lines 97-117.  The rest spread copies the top    *)
(* level only: the jsc reference of the result is the caller's.            *)
(***************************************************************************)
\* A slip in line 102: the env selection is not looked at.
NeedsDefaultTargetIgnoringEnv(st) ==
    ~Truthy(JscField(st, "target"))

NeedsDefaultTarget(st) ==
    ~st.opts.env /\ ~Truthy(JscField(st, "target"))

NeedsDefaultSourceMaps(st) ==
    ~Truthy(st.opts.sourceMaps)

BuildSwcTransformOpts(swcOptions, h) ==
    LET s0 == [opts |-> [env |-> swcOptions.env,
                         sourceMaps |-> swcOptions.sourceMaps,
                         jsc |-> swcOptions.jsc,
                         module |-> swcOptions.module,
                         keys |-> swcOptions.keys],
               heap |-> h]
        s1 == IF NeedsDefaultTarget(s0)
              THEN Set(s0, "jsc.target", DefaultTarget) ELSE s0
        s2 == Set(s1, "jsc.transform.hidden.jest", "true")
        s3 == IF NeedsDefaultSourceMaps(s2)
              THEN Set(s2, "sourceMaps", InlineSourceMaps) ELSE s2
        s4 == IF Truthy(JscField(s3, "baseUrl"))
              THEN Set(s3, "jsc.baseUrl", PathResolve(JscField(s3, "baseUrl")))
              ELSE s3
    IN s4

\* JSON.stringify(computedSwcOptions), line 31: the text as a sequence of
\* tokens.  Every object writes its keys in insertion order, so two graphs
\* with the same content and another key order give different texts.
RECURSIVE JoinAll(_)
JoinAll(parts) ==
    IF parts = <<>> THEN <<>> ELSE Head(parts) \o JoinAll(Tail(parts))

StringifyPlugin(plugin) ==
    <<"[", plugin.id, "{">>
    \o (IF plugin.opts.coverageVariable = Unset THEN <<>>
        ELSE <<"coverageVariable", plugin.opts.coverageVariable>>)
    \o <<"}", "]">>

\* A key that holds undefined is left out of the text.
StringifyJscKey(cell, k) ==
    CASE k = "target" ->
            IF cell.target = Unset THEN <<>> ELSE <<"target", cell.target>>
      [] k = "baseUrl" ->
            IF cell.baseUrl = Unset THEN <<>> ELSE <<"baseUrl", cell.baseUrl>>
      [] k = "transform" ->
            IF cell.hiddenJest = Unset THEN <<>>
            ELSE <<"transform", "{", "hidden", "{", "jest", cell.hiddenJest,
                   "}", "}">>
      [] k = "experimental" ->
            IF ~cell.experimental THEN <<>>
            ELSE <<"experimental", "{">>
                 \o (IF cell.pluginsIsArray
                     THEN <<"plugins", "[">>
                          \o JoinAll([n \in 1..Len(cell.plugins) |->
                                         StringifyPlugin(cell.plugins[n])])
                          \o <<"]">>
                     ELSE <<>>)
                 \o <<"}">>

StringifyJsc(cell) ==
    <<"{">>
    \o JoinAll([n \in 1..Len(cell.keys) |->
                   StringifyJscKey(cell, cell.keys[n])])
    \o <<"}">>

StringifyModule(m) ==
    <<"{">> \o (IF m.type = Unset THEN <<>> ELSE <<"type", m.type>>) \o <<"}">>

StringifyKey(opts, h, k) ==
    CASE k = "env" -> IF opts.env THEN <<"env", "{", "}">> ELSE <<>>
      [] k = "sourceMaps" ->
            IF opts.sourceMaps = Unset THEN <<>>
            ELSE <<"sourceMaps", opts.sourceMaps>>
      [] k = "jsc" ->
            IF opts.jsc = NoRef THEN <<>>
            ELSE <<"jsc">> \o StringifyJsc(h[opts.jsc])
      [] k = "module" ->
            IF opts.module = {} THEN <<>>
            ELSE <<"module">>
                 \o StringifyModule(CHOOSE m \in opts.module : TRUE)

Stringify(opts, h) ==
    <<"{">>
    \o JoinAll([n \in 1..Len(opts.keys) |->
                   StringifyKey(opts, h, opts.keys[n])])
    \o <<"}">>

(***************************************************************************)
(* insertInstrumentationOptions, lines 119-148.                            *)
(***************************************************************************)
\* A slip in line 125: || for &&.
ShouldInstrumentEither(instrument, canInstrument) ==
    instrument \/ canInstrument

ShouldInstrument(instrument, canInstrument) ==
    instrument /\ canInstrument

HasCoveragePlugin(plugins) ==
    \E k \in 1..Len(plugins) : plugins[k].id = CoveragePluginId

\* A slip in line 131: the entry itself is compared with the identifier
\* (x === id for x[0] === id), which no entry ever equals.
AlreadyInstrumentedNeverFound(st) == FALSE

AlreadyInstrumented(st) ==
    /\ st.opts.jsc # NoRef
    /\ st.heap[st.opts.jsc].experimental
    /\ st.heap[st.opts.jsc].pluginsIsArray
    /\ HasCoveragePlugin(st.heap[st.opts.jsc].plugins)

InsertInstrumentationOptions(instrument, canInstrument, st, instrumentOptions) ==
    IF ~ShouldInstrument(instrument, canInstrument) THEN st
    ELSE IF AlreadyInstrumented(st) THEN st
    ELSE LET s == WithJsc(st)
             j == s.opts.jsc
             cell == s.heap[j]
             arr == IF cell.experimental /\ cell.pluginsIsArray
                    THEN cell.plugins ELSE <<>>
         IN [s EXCEPT !.heap[j] =
                [cell EXCEPT !.experimental = TRUE,
                             !.pluginsIsArray = TRUE,
                             !.keys = AddKey(@, "experimental"),
                             !.plugins = Append(arr,
                                 [id |-> CoveragePluginId,
                                  opts |-> instrumentOptions])]]

(***************************************************************************)
(* The transformer's operations, lines 35-78.                              *)
(***************************************************************************)
InstanceIds == 1..Len(instances)

\* A slip in lines 43-46: the spread written after the type, so that a
\* type set in the shared module object wins over the call's.
ModuleOverlaySpreadLast(sharedModule, type) ==
    IF sharedModule.type # Unset THEN sharedModule ELSE [type |-> type]

\* { ...computedSwcOptions.module, type }, lines 43-46 and 55-59: the
\* shared module object is copied and the call's type laid over it.
ModuleOverlay(sharedModule, type) ==
    [sharedModule EXCEPT !.type = type]

\* ...computedSwcOptions.module, lines 44 and 56: spreading undefined
\* gives no key.
SharedModule(opts) ==
    IF opts.module = {} THEN [type |-> Unset]
    ELSE CHOOSE m \in opts.module : TRUE

\* The module type process asks for, line 45.
SyncModuleType(esm) ==
    IF Truthy(esm) THEN "es6" ELSE "commonjs"

\* The module type processAsync asks for, line 58.
AsyncModuleType(esm) == "es6"

\* What the compiler reads in a jsc object: its content by key, whatever
\* order the keys were inserted in.
JscContent(cell) ==
    [target |-> cell.target, baseUrl |-> cell.baseUrl,
     hiddenJest |-> cell.hiddenJest, experimental |-> cell.experimental,
     pluginsIsArray |-> cell.pluginsIsArray, plugins |-> cell.plugins]

\* The options object handed to transformSync / transform, lines 41-48 and
\* 53-61, as the compiler reads it on the call.
Delegated(opts, h, type, filename) ==
    [env |-> opts.env, sourceMaps |-> opts.sourceMaps,
     jsc |-> IF opts.jsc = NoRef THEN {} ELSE {JscContent(h[opts.jsc])},
     module |-> ModuleOverlay(SharedModule(opts), type),
     filename |-> filename]

\* A slip in line 31: the options serialized when the key is asked for
\* instead of once at setup.
GlobalCacheKeyLate(i) ==
    <<SwcVersion, Version, Stringify(instances[i].opts, heap)>>

\* The values the cache key function of an instance was built over,
\* line 31: fixed when createTransformer ran.
GlobalCacheKey(i) == instances[i].globalKey

\* cacheKeyFunction(src, filename, ...rest), line 66: the digest of
\* @jest/create-cache-key-function over the global values, the source
\* text, the file and the call's instrument flag; injective.
CacheKeyFunction(i, src, filename, instrument) ==
    <<"sha1", GlobalCacheKey(i), src, filename,
      IF instrument THEN "instrument" ELSE "">>

\* JSON.stringify({ supportsStaticESM }), line 75: an undefined flag
\* leaves the key out.
StringifyEsm(esm) ==
    CASE esm = "true" -> "{\"supportsStaticESM\":true}"
      [] esm = "false" -> "{\"supportsStaticESM\":false}"
      [] OTHER -> "{}"

\* Lines 71-76: md5 over the base key, a NUL and the flag; injective.
CacheKey(i, src, filename, instrument, esm) ==
    <<"md5", CacheKeyFunction(i, src, filename, instrument), "NUL",
      StringifyEsm(esm)>>

NoCall ==
    [op |-> "none", inst |-> 0, src |-> "", filename |-> "",
     instrument |-> FALSE, esm |-> Unset, ok |-> TRUE, inserted |-> FALSE,
     given |-> {}, delegated |-> {}, key |-> {}]

\* The caller holds an options object built from the value v.
InitWith(values) ==
    /\ \E v \in values :
          LET g == Materialize(v, <<>>) IN
          /\ heap = g.heap
          /\ callerOpts = g.opts
    /\ instances = <<>>
    /\ pending = 0
    /\ last = NoCall

Init == InitWith(SetupValues)

\* The closure of lines 29-35 over the built options.
NewInstance(cci, st) ==
    [opts |-> st.opts,
     canInstrument |-> Truthy(cci.enabled),
     instrumentOptions |-> [coverageVariable |-> cci.coverageVariable],
     globalKey |-> <<SwcVersion, Version, Stringify(st.opts, st.heap)>>]

\* createTransformer(swcTransformOpts) with the caller's options object.
CreateTransformer ==
    LET st == BuildSwcTransformOpts(callerOpts, heap) IN
    /\ heap' = st.heap
    /\ instances' = Append(instances, NewInstance(callerOpts.cci, st))
    /\ last' = [NoCall EXCEPT !.op = "create",
                              !.inst = Len(instances) + 1,
                              !.given = {DeepOptions(callerOpts, heap)}]
    /\ UNCHANGED <<callerOpts, pending>>

\* createTransformer() without options: they are read from .swcrc, and
\* line 33 finds no instrumentation block.
CreateTransformerFromSwcrc(file) ==
    LET r == GetOptionsFromSwrc(file, heap) IN
    /\ IF ~r.ok
       THEN /\ last' = [NoCall EXCEPT !.op = "create", !.ok = FALSE]
            /\ UNCHANGED <<heap, instances>>
       ELSE LET st == BuildSwcTransformOpts(r.st.opts, r.st.heap) IN
            /\ heap' = st.heap
            /\ instances' = Append(instances,
                                   NewInstance(NoInstrumentation, st))
            /\ last' = [NoCall EXCEPT !.op = "create",
                          !.inst = Len(instances) + 1,
                          !.given = {DeepOptions(r.st.opts, r.st.heap)}]
    /\ UNCHANGED <<callerOpts, pending>>

\* What a transform call does before it delegates, lines 39 and 51.
Instrumented(i, instrument) ==
    InsertInstrumentationOptions(instrument, instances[i].canInstrument,
        [opts |-> instances[i].opts, heap |-> heap],
        instances[i].instrumentOptions)

\* process(src, filename, jestOptions), lines 37-49; ok is whether
\* transformSync returned or threw.
Process(i, src, filename, instrument, esm, ok) ==
    /\ i \in InstanceIds
    /\ LET st == Instrumented(i, instrument) IN
       /\ heap' = st.heap
       /\ instances' = [instances EXCEPT ![i].opts = st.opts]
       /\ last' = [NoCall EXCEPT !.op = "process", !.inst = i, !.src = src,
                     !.filename = filename, !.instrument = instrument,
                     !.esm = esm, !.ok = ok,
                     !.inserted = (st.heap # heap),
                     !.delegated = {Delegated(st.opts, st.heap,
                                              SyncModuleType(esm), filename)}]
    /\ UNCHANGED <<callerOpts, pending>>

\* processAsync(src, filename, jestOptions), lines 50-62: returns the
\* compiler's promise, which settles later.
ProcessAsync(i, src, filename, instrument, esm) ==
    /\ i \in InstanceIds
    /\ pending < MaxPending
    /\ LET st == Instrumented(i, instrument) IN
       /\ heap' = st.heap
       /\ instances' = [instances EXCEPT ![i].opts = st.opts]
       /\ last' = [NoCall EXCEPT !.op = "processAsync", !.inst = i,
                     !.src = src, !.filename = filename,
                     !.instrument = instrument, !.esm = esm,
                     !.inserted = (st.heap # heap),
                     !.delegated = {Delegated(st.opts, st.heap,
                                              AsyncModuleType(esm), filename)}]
    /\ pending' = pending + 1
    /\ UNCHANGED <<callerOpts>>

\* The compiler settles a pending promise: resolved or rejected.
Settle(ok) ==
    /\ pending > 0
    /\ pending' = pending - 1
    /\ last' = [NoCall EXCEPT !.op = "settled", !.ok = ok]
    /\ UNCHANGED <<heap, callerOpts, instances>>

\* getCacheKey(src, filename, ...rest), lines 64-77.
GetCacheKey(i, src, filename, instrument, esm) ==
    /\ i \in InstanceIds
    /\ last' = [NoCall EXCEPT !.op = "getCacheKey", !.inst = i, !.src = src,
                  !.filename = filename, !.instrument = instrument,
                  !.esm = esm,
                  !.key = {CacheKey(i, src, filename, instrument, esm)}]
    /\ UNCHANGED <<heap, callerOpts, instances, pending>>

Next ==
    \/ Len(instances) < MaxInstances /\ CreateTransformer
    \/ /\ Len(instances) < MaxInstances
       /\ \E file \in SetupFiles : CreateTransformerFromSwcrc(file)
    \/ \E i \in InstanceIds, src \in Sources, filename \in Filenames,
          instrument \in BOOLEAN, esm \in EsmFlags, ok \in BOOLEAN :
          Process(i, src, filename, instrument, esm, ok)
    \/ \E i \in InstanceIds, src \in Sources, filename \in Filenames,
          instrument \in BOOLEAN, esm \in EsmFlags :
          ProcessAsync(i, src, filename, instrument, esm)
    \/ \E ok \in BOOLEAN : Settle(ok)
    \/ \E i \in InstanceIds, src \in Sources, filename \in Filenames,
          instrument \in BOOLEAN, esm \in EsmFlags :
          GetCacheKey(i, src, filename, instrument, esm)

Spec == Init /\ [][Next]_vars

(***************************************************************************)
(* The option resolver alone: createTransformer once, over every options   *)
(* value and every .swcrc.                                                 *)
(***************************************************************************)
InitResolve == InitWith(OptionValues)

\* One createTransformer call per behaviour.  The call without options
\* does not read the caller's object: it is taken where that object is {}.
NextResolve ==
    \/ instances = <<>> /\ last.op = "none" /\ CreateTransformer
    \/ /\ instances = <<>> /\ last.op = "none"
       /\ callerOpts.keys = <<>> /\ callerOpts.cci = NoInstrumentation
       /\ \E file \in SwcrcFiles : CreateTransformerFromSwcrc(file)

SpecResolve == InitResolve /\ [][NextResolve]_vars

(***************************************************************************)
(* Properties.                                                             *)
(***************************************************************************)
TransformOps == {"process", "processAsync"}

\* The shared options' plugin list of instance i.
PluginsOf(i) == heap[instances[i].opts.jsc].plugins

CoverageCount(plugins) ==
    Cardinality({k \in 1..Len(plugins) : plugins[k].id = CoveragePluginId})

\* The shared compile options of instance i, nested objects written out.
SharedOptions(i) == Stringify(instances[i].opts, heap)

\* No other instance holds the jsc object of instance i.
OwnsJsc(i) ==
    \A k \in InstanceIds : k # i => instances[k].opts.jsc # instances[i].opts.jsc

\* C1: on an instance that can instrument, whose caller supplied no
\* coverage plugin, the shared plugin list never holds more than one
\* coverage descriptor, and holds exactly one after every process or
\* processAsync call that requested coverage, whatever calls came before
\* and whether or not earlier asynchronous compilations are still pending.
C1_ExactlyOneCoverageDescriptor ==
    \A i \in InstanceIds :
        instances[i].canInstrument =>
            /\ CoverageCount(PluginsOf(i)) <= 1
            /\ (last.op \in TransformOps /\ last.inst = i /\ last.instrument)
                  => CoverageCount(PluginsOf(i)) = 1

\* A coverage-requesting call on a capable instance that found the
\* descriptor of an earlier coverage-requesting call on the same instance
\* (nobody else holds its jsc object), while a compilation is pending.
C1_Witness ==
    /\ last.op \in TransformOps /\ last.instrument
    /\ instances[last.inst].canInstrument
    /\ OwnsJsc(last.inst)
    /\ ~last.inserted
    /\ pending > 0
    /\ CoverageCount(PluginsOf(last.inst)) = 1

\* C2: a process or processAsync call that does not request coverage, or
\* that runs on an instance not marked capable of instrumenting, leaves
\* every plugin list as it was.
C2_NoInsertionWithoutRequest ==
    [][(/\ last'.op \in TransformOps
        /\ ~(last'.instrument /\ instances[last'.inst].canInstrument))
       => /\ Len(heap') = Len(heap)
          /\ \A j \in 1..Len(heap) : heap'[j].plugins = heap[j].plugins]_vars

\* Coverage was requested of an instance that cannot instrument: its
\* plugin list holds no coverage descriptor.
C2_Witness ==
    /\ last.op \in TransformOps /\ last.instrument
    /\ ~instances[last.inst].canInstrument
    /\ CoverageCount(PluginsOf(last.inst)) = 0

\* C3: the digest getCacheKey returns on an instance for given source
\* text, filename and instrument flag is the same before and after every
\* step (so two calls with the same inputs agree whatever ran in between),
\* and two different supportsStaticESM flags give different digests.
C3_CacheKeyStable ==
    [][\A i \in InstanceIds, src \in Sources, filename \in Filenames,
          instrument \in BOOLEAN :
          /\ \A esm \in EsmFlags :
                CacheKey(i, src, filename, instrument, esm)'
                   = CacheKey(i, src, filename, instrument, esm)
          /\ \A e1 \in EsmFlags : \A e2 \in EsmFlags \ {e1} :
                CacheKey(i, src, filename, instrument, e1)
                   # CacheKey(i, src, filename, instrument, e2)]_vars

\* getCacheKey on an instance whose shared options have changed since
\* setup (a coverage descriptor was inserted by a transform call).
C3_Witness ==
    /\ last.op = "getCacheKey"
    /\ CoverageCount(PluginsOf(last.inst)) = 1
    /\ SharedOptions(last.inst) # instances[last.inst].globalKey[3]
    /\ last.key = {CacheKey(last.inst, last.src, last.filename,
                            last.instrument, last.esm)}

\* C4: every process call delegates module type es6 exactly when its
\* supportsStaticESM flag is true and commonjs otherwise, every
\* processAsync call delegates es6, and no step changes the module type
\* held in an instance's shared options.
C4_ModuleTypePerCall ==
    [][/\ last'.op = "process" =>
            \A d \in last'.delegated :
               d.module.type = IF last'.esm = "true" THEN "es6" ELSE "commonjs"
       /\ last'.op = "processAsync" =>
            \A d \in last'.delegated : d.module.type = "es6"
       /\ \A i \in InstanceIds :
            instances'[i].opts.module = instances[i].opts.module]_vars

\* A synchronous call without static ESM delegates commonjs while an
\* asynchronous call (which delegated es6) is pending, on an instance whose
\* shared options name another module type.
C4_Witness ==
    /\ last.op = "process" /\ last.esm = "false"
    /\ pending > 0
    /\ instances[last.inst].opts.module = {[type |-> "amd"]}
    /\ \A d \in last.delegated : d.module.type = "commonjs"

\* The target the resolver was given.
GivenTarget(g) ==
    IF g.jsc = {} THEN Unset ELSE (CHOOSE j \in g.jsc : TRUE).target

\* C5: an input with neither an env selection nor a jsc.target resolves
\* to target es2016; an input with either keeps its own target (or none).
C5_DefaultTarget ==
    (last.op = "create" /\ last.ok) =>
        \A g \in last.given :
            heap[instances[last.inst].opts.jsc].target =
                IF ~g.env /\ GivenTarget(g) = Unset
                THEN "es2016" ELSE GivenTarget(g)

\* An input with an env selection and no target resolved without one.
C5_Witness ==
    /\ last.op = "create" /\ last.ok
    /\ \A g \in last.given : g.env /\ GivenTarget(g) = Unset
    /\ heap[instances[last.inst].opts.jsc].target = Unset

\* C6 as claimed: a source-map mode that is set (true, false or inline)
\* is kept, and only an unset one resolves to inline.
C6_SourceMapsKept ==
    (last.op = "create" /\ last.ok) =>
        \A g \in last.given :
            instances[last.inst].opts.sourceMaps =
                IF g.sourceMaps = Unset THEN "inline" ELSE g.sourceMaps

\* C7 as claimed: a process call in which the compiler fails leaves the
\* instance's shared compile options as they were before the call.
C7_FailedCallChangesNothing ==
    [][(last'.op = "process" /\ ~last'.ok)
       => Stringify(instances'[last'.inst].opts, heap')
             = Stringify(instances[last'.inst].opts, heap)]_vars

\* C8 as claimed: no setup or call changes the options object the caller
\* passed in, nor the compile options of an instance other than the one
\* set up or called.
C8_OptionsOwnedByInstance ==
    [][/\ DeepOptions(callerOpts', heap') = DeepOptions(callerOpts, heap)
       /\ \A k \in InstanceIds :
            k # last'.inst =>
               Stringify(instances'[k].opts, heap')
                  = Stringify(instances[k].opts, heap)]_vars

\* C9 as claimed: the options a call delegates hold the coverage
\* descriptor only if that call requested coverage on a capable instance.
C9_DescriptorOnlyWhenRequested ==
    last.op \in TransformOps =>
        \A d \in last.delegated : \A j \in d.jsc :
            HasCoveragePlugin(j.plugins) =>
                last.instrument /\ instances[last.inst].canInstrument

\* C10 as claimed: two process calls on the same source text and filename
\* whose inputs get the same cache key delegate the same options.
C10_EqualKeyEqualOptions ==
    [][(/\ last.op = "process" /\ last'.op = "process"
        /\ last.src = last'.src /\ last.filename = last'.filename
        /\ CacheKey(last.inst, last.src, last.filename,
                    last.instrument, last.esm)
             = CacheKey(last'.inst, last'.src, last'.filename,
                        last'.instrument, last'.esm))
       => last'.delegated = last.delegated]_vars

====
